---- MODULE Spec2Model ----
(***************************************************************************)
(* Model of the droidboot flashing engine: the fastboot command handlers   *)
(* of aboot.c (cmd_erase, cmd_flash, cmd_oem, cmd_boot, cmd_reboot,        *)
(* cmd_continue) and the boot orchestration of droidboot.c (countdown,     *)
(* disable_autoboot, try_update_sw, autoboot_thread, main).                *)
(***************************************************************************)
EXTENDS Integers, Sequences, FiniteSets, TLC

(***************************************************************************)
(* Bounds of the model.                                                    *)
(***************************************************************************)
\* longest payload handed to a command handler
MaxLen == 4
\* largest droidboot.delay value drawn from the kernel command line
MaxDelay == 2
\* number of calls of try_update_sw made by the re-entry harness
MaxCalls == 2

(***************************************************************************)
(* Program constants.                                                      *)
(***************************************************************************)
PC_PART_TYPE_LINUX == 131
PC_PART_TYPE_FAT == 12
EXT_SUPERBLOCK_OFFSET == 1024
EXT3_SUPER_MAGIC == 61267
GZIP_ID1 == 31
GZIP_ID2 == 139
GZIP_DEFLATE == 8
CMD_SYSTEM == "system"
CMD_PARTITION == "partition"
CACHE_PTN == "cache"
DATA_PTN == "data"

\* byte values a payload is made of
Bytes == {0, GZIP_DEFLATE, GZIP_ID1, GZIP_ID2}

\* exit statuses execute_command() can hand back
ExitCodes == {-1, 0, 1, 2}

Threads == {"main", "auto", "input"}

(***************************************************************************)
(* C string helpers.                                                       *)
(***************************************************************************)
Min(a, b) == IF a < b THEN a ELSE b

\* strcmp(a, b) == 0
StrEq(a, b) == a = b

\* strncmp(a, b, n) == 0: the first n characters agree (a string that ends
\* before n characters only matches a string that ends at the same place)
StrNEq(a, b, n) == SubSeq(a, 1, Min(n, Len(a))) = SubSeq(b, 1, Min(n, Len(b)))

\* while (*arg == ' ') arg++;
RECURSIVE SkipSpaces(_)
SkipSpaces(s) == IF Len(s) > 0 /\ Head(s) = " " THEN SkipSpaces(Tail(s)) ELSE s

\* arg += n
Advance(s, n) == SubSeq(s, n + 1, Len(s))

\* value of one decimal digit character, -1 for any other character
DigitVal(c) ==
    CASE c = "0" -> 0 [] c = "1" -> 1 [] c = "2" -> 2 [] c = "3" -> 3
      [] c = "4" -> 4 [] c = "5" -> 5 [] c = "6" -> 6 [] c = "7" -> 7
      [] c = "8" -> 8 [] c = "9" -> 9 [] OTHER -> -1

\* atoi() of a string with no sign and no leading blanks: the leading digits
RECURSIVE AtoiAcc(_, _)
AtoiAcc(s, acc) ==
    IF Len(s) = 0 \/ DigitVal(Head(s)) < 0 THEN acc
    ELSE AtoiAcc(Tail(s), 10 * acc + DigitVal(Head(s)))

Atoi(s) == AtoiAcc(s, 0)

(***************************************************************************)
(* The disk layout (libdiskconfig's struct disk_info).                     *)
(***************************************************************************)
disk_info ==
    [device |-> "/dev/block/mmcblk0",
     plist  |-> << [name |-> "boot",  type |-> PC_PART_TYPE_FAT,
                    device |-> "/dev/block/mmcblk0p1"],
                   [name |-> "cache", type |-> PC_PART_TYPE_LINUX,
                    device |-> "/dev/block/mmcblk0p2"],
                   [name |-> "data",  type |-> PC_PART_TYPE_LINUX,
                    device |-> "/dev/block/mmcblk0p3"] >>]

\* a struct part_info * is an index into plist, 0 is NULL
NULL == 0

\* find_part(disk_info, name): the partition record of that name, or NULL
find_part(dinfo, name) ==
    IF \E i \in 1..Len(dinfo.plist) : dinfo.plist[i].name = name
    THEN CHOOSE i \in 1..Len(dinfo.plist) : dinfo.plist[i].name = name
    ELSE NULL

\* names a flash: or erase: command can carry
PartNames == {"disk", "osip0", "osip12", "boot", "cache", "data", "bogus", "diskx"}

\* arguments an oem command can carry (the text after "oem")
OemArgs == {" system ls", "system  ls", " partition", "partition",
            "partitions", "systemx", " format", "", " "}

RECURSIVE SeqsUpTo(_, _)
SeqsUpTo(S, n) ==
    IF n = 0 THEN {<< >>}
    ELSE LET shorter == SeqsUpTo(S, n - 1)
         IN  shorter \cup {Append(s, b) : s \in {t \in shorter : Len(t) = n - 1}, b \in S}

\* the downloaded images a command can be given
Payloads == SeqsUpTo(Bytes, MaxLen)

(***************************************************************************)
(* State.                                                                  *)
(***************************************************************************)
VARIABLES
    pc,             \* position of each thread
    alive,          \* "running", or how the process ended
    action_mutex,   \* owner of action_mutex, "free" when unlocked
    cmd,            \* the command being handled: name, argument, payload
    log,            \* replies and device operations of the current command
    device,         \* cmd_flash/cmd_erase: destination device node, "" is NULL
    ptn,            \* cmd_flash/cmd_erase: partition record, 0 is NULL
    cmd_base,       \* cmd_flash: the write pipeline chosen, "gzip" or "raw"
    fp,             \* cmd_flash: the popen() stream is open
    do_ext_checks,  \* cmd_flash: run the ext4 repair steps
    written,        \* cmd_flash: bytes that reached the device node
    g_use_autoboot,             \* droidboot.bootloader
    g_autoboot_delay_secs,      \* droidboot.delay
    g_update_pause,             \* droidboot.updatepause
    g_2ndstageboot_part,        \* droidboot.bootpart
    platform_provision_function,\* a platform hook is registered
    vol,            \* main: the SD card volume, NoVol is NULL
    g_update_location,          \* stashed update path, "" is NULL
    use_countdown,  \* try_update_sw: its second argument
    update_location,\* try_update_sw: detected package path, "" is NULL
    tus_ret,        \* try_update_sw: the value returned
    calls,          \* number of calls of try_update_sw so far
    ulog,           \* storage and lock operations of the current call
    autoboot_enabled,           \* the armed flag
    seconds,        \* countdown: remaining seconds, per calling thread
    cd_ret,         \* countdown: the value returned, per calling thread
    iters,          \* countdown: iterations of the loop performed so far
    key_seen,       \* countdown: a key event was handled during this run
    cleared_at,     \* countdown: iteration during which a key event cleared
                    \* the armed flag, -1 when none did
    progress        \* what the progress indicator of the UI shows

cmdvars == <<cmd, log, device, ptn, cmd_base, fp, do_ext_checks, written>>
cfgvars == <<g_use_autoboot, g_autoboot_delay_secs, g_update_pause,
             g_2ndstageboot_part, platform_provision_function, vol>>
updvars == <<g_update_location, use_countdown, update_location, tus_ret,
             calls, ulog>>
cdvars == <<autoboot_enabled, seconds, cd_ret, iters, key_seen, cleared_at>>
bootvars == <<cfgvars, updvars, cdvars, progress>>
vars == <<pc, alive, action_mutex, cmdvars, bootvars>>

NoCmd == [name |-> "none", arg |-> "", data |-> << >>]

Ev(e, a, n) == [ev |-> e, arg |-> a, n |-> n]

\* fastboot_okay(msg) / fastboot_fail(reason): the terminal reply to the host
fastboot_okay(msg) == Ev("okay", msg, 0)
fastboot_fail(reason) == Ev("fail", reason, 0)

IsReply(e) == e.ev \in {"okay", "fail"}
Replies(l) == SelectSeq(l, IsReply)
IoEvents(l) == SelectSeq(l, LAMBDA e : ~IsReply(e))

\* the main thread moves from one label to the next
Goto(t, l) == pc' = [pc EXCEPT ![t] = l]
At(t, l) == alive = "running" /\ pc[t] = l

\* die(): the process exits
die(t) == alive' = "died" /\ UNCHANGED pc

(***************************************************************************)
(* The fastboot engine: takes action_mutex, runs the handler registered    *)
(* for the command, releases the mutex when the handler returns.           *)
(***************************************************************************)
Commands(names, oemargs, payloads) ==
    {[name |-> "flash", arg |-> a, data |-> d] : a \in names, d \in payloads}
    \cup {[name |-> "erase", arg |-> a, data |-> << >>] : a \in names}
    \cup {[name |-> "oem", arg |-> a, data |-> << >>] : a \in oemargs}
    \cup {[name |-> n, arg |-> "", data |-> << >>] :
            n \in {"boot", "reboot", "continue"}}

HandlerEntry(n) ==
    CASE n = "erase"    -> "erase_find"
      [] n = "flash"    -> "flash_resolve"
      [] n = "oem"      -> "oem"
      [] n = "boot"     -> "boot"
      [] n = "reboot"   -> "reboot_okay"
      [] n = "continue" -> "continue"

\* the handler's locals and the reply channel between two commands
CmdIdle ==
    /\ cmd = NoCmd
    /\ log = << >>
    /\ device = ""
    /\ ptn = NULL
    /\ cmd_base = "none"
    /\ fp = FALSE
    /\ do_ext_checks = FALSE
    /\ written = << >>

fastboot_dispatch(cmds) ==
    /\ At("main", "fb_idle")
    /\ action_mutex = "free"
    /\ \E c \in cmds :
        /\ cmd' = c
        /\ Goto("main", HandlerEntry(c.name))
    /\ action_mutex' = "main"
    /\ UNCHANGED <<alive, log, device, ptn, cmd_base, fp, do_ext_checks, written>>
    /\ UNCHANGED bootvars

fastboot_return ==
    /\ At("main", "fb_return")
    /\ action_mutex' = "free"
    /\ Goto("main", "fb_idle")
    /\ cmd' = NoCmd
    /\ log' = << >>
    /\ device' = ""
    /\ ptn' = NULL
    /\ cmd_base' = "none"
    /\ fp' = FALSE
    /\ do_ext_checks' = FALSE
    /\ written' = << >>
    /\ UNCHANGED alive
    /\ UNCHANGED bootvars

Reply(r) == log' = Append(log, r)
Io(e, a, n) == log' = Append(log, Ev(e, a, n))

(***************************************************************************)
(* cmd_erase                                                               *)
(***************************************************************************)
\* aboot.c:70-75
erase_find ==
    /\ At("main", "erase_find")
    /\ LET p == find_part(disk_info, cmd.arg) IN
        IF p = NULL
        THEN /\ Reply(fastboot_fail("unknown partition name"))
             /\ Goto("main", "fb_return")
             /\ UNCHANGED ptn
        ELSE /\ ptn' = p
             /\ Goto("main", "erase_device")
             /\ UNCHANGED log
    /\ UNCHANGED <<alive, action_mutex, cmd, device, cmd_base, fp,
                   do_ext_checks, written>>
    /\ UNCHANGED bootvars

\* aboot.c:79-83
erase_device ==
    /\ At("main", "erase_device")
    /\ \E found \in BOOLEAN :
        IF ~found
        THEN /\ Reply(fastboot_fail("find_part_device failed!"))
             /\ die("main")
             /\ UNCHANGED device
        ELSE /\ device' = disk_info.plist[ptn].device
             /\ Goto("main", "erase_blkdev")
             /\ UNCHANGED <<log, alive>>
    /\ UNCHANGED <<action_mutex, cmd, ptn, cmd_base, fp, do_ext_checks, written>>
    /\ UNCHANGED bootvars

\* aboot.c:85-88
erase_blkdev ==
    /\ At("main", "erase_blkdev")
    /\ \E valid \in BOOLEAN :
        IF ~valid
        THEN /\ Reply(fastboot_fail("invalid destination node. partition disks?"))
             /\ Goto("main", "fb_return")
        ELSE /\ Goto("main", "erase_format")
             /\ UNCHANGED log
    /\ UNCHANGED <<alive, action_mutex, cmd, device, ptn, cmd_base, fp,
                   do_ext_checks, written>>
    /\ UNCHANGED bootvars

\* aboot.c:90-113
erase_format ==
    /\ At("main", "erase_format")
    /\ IF disk_info.plist[ptn].type = PC_PART_TYPE_LINUX
       THEN \E alloc \in BOOLEAN, status \in ExitCodes :
            IF ~alloc
            THEN Reply(fastboot_fail("memory allocation error"))
            ELSE IF status # 0
            THEN log' = log \o <<Ev("exec", "make_ext4fs", status),
                                 fastboot_fail("make_ext4fs failed")>>
            ELSE log' = log \o <<Ev("exec", "make_ext4fs", status),
                                 fastboot_okay("")>>
       ELSE Reply(fastboot_fail("Unsupported partition type"))
    /\ Goto("main", "fb_return")
    /\ UNCHANGED <<alive, action_mutex, cmd, device, ptn, cmd_base, fp,
                   do_ext_checks, written>>
    /\ UNCHANGED bootvars

\* aboot.c:342-345
cmd_boot ==
    /\ At("main", "boot")
    /\ Reply(fastboot_fail("boot command stubbed on this platform!"))
    /\ Goto("main", "fb_return")
    /\ UNCHANGED <<alive, action_mutex, cmd, device, ptn, cmd_base, fp,
                   do_ext_checks, written>>
    /\ UNCHANGED bootvars

(***************************************************************************)
(* cmd_flash                                                               *)
(***************************************************************************)
\* aboot.c:170-173, the gzip header test on data_bytes[0], [1] and [3];
\* beyond is the byte found behind a payload of exactly three bytes
IsGzip(data, beyond) ==
    /\ Len(data) > 2
    /\ data[1] = GZIP_ID1
    /\ data[2] = GZIP_ID2
    /\ (IF Len(data) > 3 THEN data[4] ELSE beyond) = GZIP_DEFLATE

\* "/system/bin/gzip -c -d | /system/bin/dd of=%s": what the decompressing
\* pipeline hands to the device: the body behind a well-formed header
\* (ID1 ID2 CM FLG), nothing when gzip rejects its input
Gunzip(s) ==
    IF Len(s) >= 4 /\ s[1] = GZIP_ID1 /\ s[2] = GZIP_ID2 /\ s[3] = GZIP_DEFLATE
    THEN SubSeq(s, 5, Len(s))
    ELSE << >>

\* what a pipeline delivers to the device node for the bytes it accepted
Pipe(base, s) == IF base = "gzip" THEN Gunzip(s) ELSE s

\* flash_resolve with the "disk" test made a prefix test
flash_resolve_prefix ==
    /\ At("main", "flash_resolve")
    /\ IF StrNEq(cmd.arg, "disk", 4)
       THEN /\ device' = disk_info.device
            /\ Goto("main", "flash_blkdev")
            /\ UNCHANGED <<log, ptn>>
       ELSE IF StrNEq(cmd.arg, "osip", 4)
       THEN /\ \E rc \in {0, -1} :
                log' = log \o
                    << Ev("write_stitch_image", "", Atoi(Advance(cmd.arg, 4))),
                       IF rc # 0 THEN fastboot_fail("write_stitch_image failure")
                                 ELSE fastboot_okay("") >>
            /\ Goto("main", "fb_return")
            /\ UNCHANGED <<device, ptn>>
       ELSE \E nodeOk \in BOOLEAN :
            LET p == find_part(disk_info, cmd.arg) IN
            IF p = NULL \/ ~nodeOk
            THEN /\ Reply(fastboot_fail("unknown partition specified"))
                 /\ Goto("main", "fb_return")
                 /\ UNCHANGED <<device, ptn>>
            ELSE /\ device' = disk_info.plist[p].device
                 /\ ptn' = p
                 /\ Goto("main", "flash_blkdev")
                 /\ UNCHANGED log
    /\ UNCHANGED <<alive, action_mutex, cmd, cmd_base, fp, do_ext_checks, written>>
    /\ UNCHANGED bootvars

\* aboot.c:143-162
flash_resolve ==
    /\ At("main", "flash_resolve")
    /\ IF StrEq(cmd.arg, "disk")
       THEN /\ device' = disk_info.device
            /\ Goto("main", "flash_blkdev")
            /\ UNCHANGED <<log, ptn>>
       ELSE IF StrNEq(cmd.arg, "osip", 4)
       THEN /\ \E rc \in {0, -1} :
                log' = log \o
                    << Ev("write_stitch_image", "", Atoi(Advance(cmd.arg, 4))),
                       IF rc # 0 THEN fastboot_fail("write_stitch_image failure")
                                 ELSE fastboot_okay("") >>
            /\ Goto("main", "fb_return")
            /\ UNCHANGED <<device, ptn>>
       ELSE \E nodeOk \in BOOLEAN :
            LET p == find_part(disk_info, cmd.arg) IN
            IF p = NULL \/ ~nodeOk
            THEN /\ Reply(fastboot_fail("unknown partition specified"))
                 /\ Goto("main", "fb_return")
                 /\ UNCHANGED <<device, ptn>>
            ELSE /\ device' = disk_info.plist[p].device
                 /\ ptn' = p
                 /\ Goto("main", "flash_blkdev")
                 /\ UNCHANGED log
    /\ UNCHANGED <<alive, action_mutex, cmd, cmd_base, fp, do_ext_checks, written>>
    /\ UNCHANGED bootvars

\* aboot.c:164-168
flash_blkdev ==
    /\ At("main", "flash_blkdev")
    /\ \E valid \in BOOLEAN :
        IF ~valid
        THEN /\ Reply(fastboot_fail("invalid destination node. partition disks?"))
             /\ Goto("main", "flash_out")
        ELSE /\ Goto("main", "flash_pipeline")
             /\ UNCHANGED log
    /\ UNCHANGED <<alive, action_mutex, cmd, device, ptn, cmd_base, fp,
                   do_ext_checks, written>>
    /\ UNCHANGED bootvars

\* aboot.c:170-185
flash_pipeline ==
    /\ At("main", "flash_pipeline")
    /\ \E beyond \in Bytes, alloc \in BOOLEAN :
        /\ cmd_base' = IF IsGzip(cmd.data, beyond) THEN "gzip" ELSE "raw"
        /\ IF ~alloc
           THEN /\ Reply(fastboot_fail("memory allocation error"))
                /\ Goto("main", "flash_out")
           ELSE /\ Goto("main", "flash_popen")
                /\ UNCHANGED log
    /\ UNCHANGED <<alive, action_mutex, cmd, device, ptn, fp, do_ext_checks,
                   written>>
    /\ UNCHANGED bootvars

\* aboot.c:187-195
flash_popen ==
    /\ At("main", "flash_popen")
    /\ \E opened \in BOOLEAN :
        IF ~opened
        THEN /\ Reply(fastboot_fail("popen failure"))
             /\ Goto("main", "flash_out")
             /\ UNCHANGED fp
        ELSE /\ Io("popen", cmd_base, 0)
             /\ fp' = TRUE
             /\ Goto("main", "flash_write")
    /\ UNCHANGED <<alive, action_mutex, cmd, device, ptn, cmd_base,
                   do_ext_checks, written>>
    /\ UNCHANGED bootvars

\* flash_write that takes any write of at least one byte for a complete one
flash_write_partial ==
    /\ At("main", "flash_write")
    /\ \E n \in 0..Len(cmd.data) :
        /\ written' = Pipe(cmd_base, SubSeq(cmd.data, 1, n))
        /\ IF n = 0 /\ n # Len(cmd.data)
           THEN /\ log' = log \o << Ev("fwrite", cmd_base, n),
                                    fastboot_fail("image write failure") >>
                /\ Goto("main", "flash_out")
                /\ UNCHANGED fp
           ELSE /\ log' = log \o << Ev("fwrite", cmd_base, n),
                                    Ev("pclose", "", 0), Ev("sync", "", 0) >>
                /\ fp' = FALSE
                /\ Goto("main", "flash_rrpart")
    /\ UNCHANGED <<alive, action_mutex, cmd, device, ptn, cmd_base,
                   do_ext_checks>>
    /\ UNCHANGED bootvars

\* aboot.c:197-206
flash_write ==
    /\ At("main", "flash_write")
    /\ \E n \in 0..Len(cmd.data) :
        /\ written' = Pipe(cmd_base, SubSeq(cmd.data, 1, n))
        /\ IF n # Len(cmd.data)
           THEN /\ log' = log \o << Ev("fwrite", cmd_base, n),
                                    fastboot_fail("image write failure") >>
                /\ Goto("main", "flash_out")
                /\ UNCHANGED fp
           ELSE /\ log' = log \o << Ev("fwrite", cmd_base, n),
                                    Ev("pclose", "", 0), Ev("sync", "", 0) >>
                /\ fp' = FALSE
                /\ Goto("main", "flash_rrpart")
    /\ UNCHANGED <<alive, action_mutex, cmd, device, ptn, cmd_base,
                   do_ext_checks>>
    /\ UNCHANGED bootvars

\* flash_rrpart without the goto out behind its failure reply
flash_rrpart_fallthrough ==
    /\ At("main", "flash_rrpart")
    /\ IF StrEq(device, disk_info.device)
       THEN \E opened \in BOOLEAN :
            IF ~opened
            THEN /\ Reply(fastboot_fail("could not open device node"))
                 /\ Goto("main", "flash_probe")
            ELSE /\ Io("BLKRRPART", device, 0)
                 /\ Goto("main", "flash_probe")
       ELSE /\ Goto("main", "flash_probe")
            /\ UNCHANGED log
    /\ UNCHANGED <<alive, action_mutex, cmd, device, ptn, cmd_base, fp,
                   do_ext_checks, written>>
    /\ UNCHANGED bootvars

\* aboot.c:208-220
flash_rrpart ==
    /\ At("main", "flash_rrpart")
    /\ IF StrEq(device, disk_info.device)
       THEN \E opened \in BOOLEAN :
            IF ~opened
            THEN /\ Reply(fastboot_fail("could not open device node"))
                 /\ Goto("main", "flash_out")
            ELSE /\ Io("BLKRRPART", device, 0)
                 /\ Goto("main", "flash_probe")
       ELSE /\ Goto("main", "flash_probe")
            /\ UNCHANGED log
    /\ UNCHANGED <<alive, action_mutex, cmd, device, ptn, cmd_base, fp,
                   do_ext_checks, written>>
    /\ UNCHANGED bootvars

\* flash_probe that trusts any named partition to hold a filesystem
flash_probe_anytype ==
    /\ At("main", "flash_probe")
    /\ IF ptn # NULL
       THEN \E opened \in BOOLEAN, pos \in {EXT_SUPERBLOCK_OFFSET, -1},
               complete \in BOOLEAN, s_magic \in {EXT3_SUPER_MAGIC, 0} :
            CASE ~opened ->
                    /\ Reply(fastboot_fail("could not open device node"))
                    /\ Goto("main", "flash_out")
                    /\ UNCHANGED do_ext_checks
              [] opened /\ pos # EXT_SUPERBLOCK_OFFSET ->
                    /\ log' = log \o << Ev("lseek", device, pos),
                          fastboot_fail("could not seek to superblock offset") >>
                    /\ Goto("main", "flash_out")
                    /\ UNCHANGED do_ext_checks
              [] opened /\ pos = EXT_SUPERBLOCK_OFFSET /\ ~complete ->
                    /\ log' = log \o << Ev("lseek", device, pos),
                          fastboot_fail("couldn't read superblock") >>
                    /\ Goto("main", "flash_out")
                    /\ UNCHANGED do_ext_checks
              [] opened /\ pos = EXT_SUPERBLOCK_OFFSET /\ complete ->
                    /\ log' = log \o << Ev("lseek", device, pos),
                                         Ev("superblock", device, s_magic) >>
                    /\ do_ext_checks' = (EXT3_SUPER_MAGIC = s_magic)
                    /\ Goto("main", IF (EXT3_SUPER_MAGIC = s_magic)
                                    THEN "flash_resize" ELSE "flash_okay")
       ELSE /\ Goto("main", "flash_okay")
            /\ UNCHANGED <<log, do_ext_checks>>
    /\ UNCHANGED <<alive, action_mutex, cmd, device, ptn, cmd_base, fp, written>>
    /\ UNCHANGED bootvars

\* flash_probe that trusts the declared type and ignores the magic read
flash_probe_nomagic ==
    /\ At("main", "flash_probe")
    /\ IF ptn # NULL /\ disk_info.plist[ptn].type = PC_PART_TYPE_LINUX
       THEN \E opened \in BOOLEAN, pos \in {EXT_SUPERBLOCK_OFFSET, -1},
               complete \in BOOLEAN, s_magic \in {EXT3_SUPER_MAGIC, 0} :
            CASE ~opened ->
                    /\ Reply(fastboot_fail("could not open device node"))
                    /\ Goto("main", "flash_out")
                    /\ UNCHANGED do_ext_checks
              [] opened /\ pos # EXT_SUPERBLOCK_OFFSET ->
                    /\ log' = log \o << Ev("lseek", device, pos),
                          fastboot_fail("could not seek to superblock offset") >>
                    /\ Goto("main", "flash_out")
                    /\ UNCHANGED do_ext_checks
              [] opened /\ pos = EXT_SUPERBLOCK_OFFSET /\ ~complete ->
                    /\ log' = log \o << Ev("lseek", device, pos),
                          fastboot_fail("couldn't read superblock") >>
                    /\ Goto("main", "flash_out")
                    /\ UNCHANGED do_ext_checks
              [] opened /\ pos = EXT_SUPERBLOCK_OFFSET /\ complete ->
                    /\ log' = log \o << Ev("lseek", device, pos),
                                         Ev("superblock", device, s_magic) >>
                    /\ do_ext_checks' = TRUE
                    /\ Goto("main", IF TRUE
                                    THEN "flash_resize" ELSE "flash_okay")
       ELSE /\ Goto("main", "flash_okay")
            /\ UNCHANGED <<log, do_ext_checks>>
    /\ UNCHANGED <<alive, action_mutex, cmd, device, ptn, cmd_base, fp, written>>
    /\ UNCHANGED bootvars

\* aboot.c:222-248
flash_probe ==
    /\ At("main", "flash_probe")
    /\ IF ptn # NULL /\ disk_info.plist[ptn].type = PC_PART_TYPE_LINUX
       THEN \E opened \in BOOLEAN, pos \in {EXT_SUPERBLOCK_OFFSET, -1},
               complete \in BOOLEAN, s_magic \in {EXT3_SUPER_MAGIC, 0} :
            CASE ~opened ->
                    /\ Reply(fastboot_fail("could not open device node"))
                    /\ Goto("main", "flash_out")
                    /\ UNCHANGED do_ext_checks
              [] opened /\ pos # EXT_SUPERBLOCK_OFFSET ->
                    /\ log' = log \o << Ev("lseek", device, pos),
                          fastboot_fail("could not seek to superblock offset") >>
                    /\ Goto("main", "flash_out")
                    /\ UNCHANGED do_ext_checks
              [] opened /\ pos = EXT_SUPERBLOCK_OFFSET /\ ~complete ->
                    /\ log' = log \o << Ev("lseek", device, pos),
                          fastboot_fail("couldn't read superblock") >>
                    /\ Goto("main", "flash_out")
                    /\ UNCHANGED do_ext_checks
              [] opened /\ pos = EXT_SUPERBLOCK_OFFSET /\ complete ->
                    /\ log' = log \o << Ev("lseek", device, pos),
                                         Ev("superblock", device, s_magic) >>
                    /\ do_ext_checks' = (EXT3_SUPER_MAGIC = s_magic)
                    /\ Goto("main", IF EXT3_SUPER_MAGIC = s_magic
                                    THEN "flash_resize" ELSE "flash_okay")
       ELSE /\ Goto("main", "flash_okay")
            /\ UNCHANGED <<log, do_ext_checks>>
    /\ UNCHANGED <<alive, action_mutex, cmd, device, ptn, cmd_base, fp, written>>
    /\ UNCHANGED bootvars

\* aboot.c:249-263
flash_resize ==
    /\ At("main", "flash_resize")
    /\ do_ext_checks
    /\ \E alloc \in BOOLEAN, status \in ExitCodes :
        IF ~alloc
        THEN /\ Reply(fastboot_fail("memory allocation error"))
             /\ Goto("main", "flash_out")
        ELSE IF status # 0
        THEN /\ log' = log \o << Ev("exec", "resize2fs", status),
                    fastboot_fail("could not resize filesystem to fill disk") >>
             /\ Goto("main", "flash_out")
        ELSE /\ Io("exec", "resize2fs", status)
             /\ Goto("main", "flash_fsck")
    /\ UNCHANGED <<alive, action_mutex, cmd, device, ptn, cmd_base, fp,
                   do_ext_checks, written>>
    /\ UNCHANGED bootvars

\* flash_fsck that only rejects a negative result of the checker
flash_fsck_lax ==
    /\ At("main", "flash_fsck")
    /\ \E alloc \in BOOLEAN, ret \in ExitCodes :
        IF ~alloc
        THEN /\ Reply(fastboot_fail("memory allocation error"))
             /\ Goto("main", "flash_out")
        ELSE IF ret < 0
        THEN /\ log' = log \o << Ev("exec", "e2fsck", ret),
                                 fastboot_fail("fsck of filesystem failed") >>
             /\ Goto("main", "flash_out")
        ELSE /\ Io("exec", "e2fsck", ret)
             /\ Goto("main", "flash_tune")
    /\ UNCHANGED <<alive, action_mutex, cmd, device, ptn, cmd_base, fp,
                   do_ext_checks, written>>
    /\ UNCHANGED bootvars

\* aboot.c:265-279
flash_fsck ==
    /\ At("main", "flash_fsck")
    /\ \E alloc \in BOOLEAN, ret \in ExitCodes :
        IF ~alloc
        THEN /\ Reply(fastboot_fail("memory allocation error"))
             /\ Goto("main", "flash_out")
        ELSE IF ret < 0 \/ ret > 1
        THEN /\ log' = log \o << Ev("exec", "e2fsck", ret),
                                 fastboot_fail("fsck of filesystem failed") >>
             /\ Goto("main", "flash_out")
        ELSE /\ Io("exec", "e2fsck", ret)
             /\ Goto("main", "flash_tune")
    /\ UNCHANGED <<alive, action_mutex, cmd, device, ptn, cmd_base, fp,
                   do_ext_checks, written>>
    /\ UNCHANGED bootvars

\* aboot.c:281-295
flash_tune ==
    /\ At("main", "flash_tune")
    /\ \E alloc \in BOOLEAN, status \in ExitCodes :
        IF ~alloc
        THEN /\ Reply(fastboot_fail("memory allocation error"))
             /\ Goto("main", "flash_out")
        ELSE IF status # 0
        THEN /\ log' = log \o << Ev("exec", "tune2fs", status),
                                 fastboot_fail("tune2fs failed") >>
             /\ Goto("main", "flash_out")
        ELSE /\ Io("exec", "tune2fs", status)
             /\ Goto("main", "flash_okay")
    /\ UNCHANGED <<alive, action_mutex, cmd, device, ptn, cmd_base, fp,
                   do_ext_checks, written>>
    /\ UNCHANGED bootvars

\* aboot.c:297
flash_okay ==
    /\ At("main", "flash_okay")
    /\ Reply(fastboot_okay(""))
    /\ Goto("main", "flash_out")
    /\ UNCHANGED <<alive, action_mutex, cmd, device, ptn, cmd_base, fp,
                   do_ext_checks, written>>
    /\ UNCHANGED bootvars

\* aboot.c:298-305
flash_out ==
    /\ At("main", "flash_out")
    /\ IF fp THEN Io("pclose", "", 0) ELSE UNCHANGED log
    /\ fp' = FALSE
    /\ Goto("main", "fb_return")
    /\ UNCHANGED <<alive, action_mutex, cmd, device, ptn, cmd_base,
                   do_ext_checks, written>>
    /\ UNCHANGED bootvars

cmd_flash ==
    \/ flash_resolve \/ flash_blkdev \/ flash_pipeline \/ flash_popen
    \/ flash_write \/ flash_rrpart \/ flash_probe \/ flash_resize
    \/ flash_fsck \/ flash_tune \/ flash_okay \/ flash_out

cmd_erase == erase_find \/ erase_device \/ erase_blkdev \/ erase_format

(***************************************************************************)
(* start_default_kernel, called by cmd_continue (main thread) and by the   *)
(* autoboot thread.                                                        *)
(***************************************************************************)
SdkReturn(t) == IF t = "main" THEN "continue_fail" ELSE "done"

\* droidboot.c:369-379
sdk_mount(t) ==
    /\ At(t, "sdk_mount")
    /\ LET p == find_part(disk_info, g_2ndstageboot_part) IN
       \E res \in (IF p = NULL THEN {"fail", "fault"} ELSE {"ok", "fail"}) :
        CASE res = "ok" ->
                /\ Goto(t, "sdk_kexec")
                /\ log' = IF t = "main"
                          THEN Append(log, Ev("mount", disk_info.plist[p].device, 0))
                          ELSE log
                /\ UNCHANGED alive
          [] res = "fail" ->
                /\ Goto(t, SdkReturn(t))
                /\ UNCHANGED <<log, alive>>
          [] res = "fault" ->
                /\ alive' = "crashed"
                /\ UNCHANGED <<pc, log>>
    /\ UNCHANGED <<action_mutex, cmd, device, ptn, cmd_base, fp, do_ext_checks,
                   written, bootvars>>

\* droidboot.c:381-386
sdk_kexec(t) ==
    /\ At(t, "sdk_kexec")
    /\ \E booted \in BOOLEAN :
        IF booted
        THEN alive' = "kexec" /\ UNCHANGED pc
        ELSE Goto(t, SdkReturn(t)) /\ UNCHANGED alive
    /\ UNCHANGED <<action_mutex, cmdvars, bootvars>>

start_default_kernel(t) == sdk_mount(t) \/ sdk_kexec(t)

(***************************************************************************)
(* cmd_oem, cmd_reboot, cmd_continue                                       *)
(***************************************************************************)
\* aboot.c:307-340
cmd_oem ==
    /\ At("main", "oem")
    /\ LET command == SkipSpaces(cmd.arg) IN
       IF StrNEq(command, CMD_SYSTEM, Len(CMD_SYSTEM))
       THEN \E retval \in ExitCodes :
            log' = log \o
                << Ev("exec", SkipSpaces(Advance(command, Len(CMD_SYSTEM))), retval),
                   IF retval # 0 THEN fastboot_fail("OEM system command failed")
                                 ELSE fastboot_okay("") >>
       ELSE IF StrNEq(command, CMD_PARTITION, Len(CMD_PARTITION))
       THEN \E rc \in {0, -1} :
            log' = log \o
                << Ev("apply_disk_config", "", rc),
                   IF rc # 0 THEN fastboot_fail("apply_disk_config error")
                             ELSE fastboot_okay("") >>
       ELSE Reply(fastboot_fail("unknown OEM command"))
    /\ Goto("main", "fb_return")
    /\ UNCHANGED <<alive, action_mutex, cmd, device, ptn, cmd_base, fp,
                   do_ext_checks, written, bootvars>>

\* aboot.c:349
reboot_okay ==
    /\ At("main", "reboot_okay")
    /\ Reply(fastboot_okay(""))
    /\ Goto("main", "reboot_sync")
    /\ UNCHANGED <<alive, action_mutex, cmd, device, ptn, cmd_base, fp,
                   do_ext_checks, written, bootvars>>

\* aboot.c:350-351
reboot_sync ==
    /\ At("main", "reboot_sync")
    /\ Io("sync", "", 0)
    /\ Goto("main", "reboot_restart")
    /\ UNCHANGED <<alive, action_mutex, cmd, device, ptn, cmd_base, fp,
                   do_ext_checks, written, bootvars>>

\* cmd_reboot telling the host of a restart call that came back
reboot_restart_complains ==
    /\ At("main", "reboot_restart")
    /\ \E restarted \in BOOLEAN :
        IF restarted
        THEN /\ Io("reboot", "android", 0)
             /\ alive' = "rebooted"
             /\ UNCHANGED pc
        ELSE /\ log' = log \o << Ev("reboot", "android", 0),
                                 fastboot_fail("Reboot failed") >>
             /\ Goto("main", "fb_return")
             /\ UNCHANGED alive
    /\ UNCHANGED <<action_mutex, cmd, device, ptn, cmd_base, fp,
                   do_ext_checks, written, bootvars>>

\* aboot.c:356-359
reboot_restart ==
    /\ At("main", "reboot_restart")
    /\ Io("reboot", "android", 0)
    /\ \E restarted \in BOOLEAN :
        IF restarted
        THEN alive' = "rebooted" /\ UNCHANGED pc
        ELSE Goto("main", "fb_return") /\ UNCHANGED alive
    /\ UNCHANGED <<action_mutex, cmd, device, ptn, cmd_base, fp,
                   do_ext_checks, written, bootvars>>

cmd_reboot == reboot_okay \/ reboot_sync \/ reboot_restart

\* aboot.c:363
continue_call ==
    /\ At("main", "continue")
    /\ Goto("main", "sdk_mount")
    /\ UNCHANGED <<alive, action_mutex, cmdvars, bootvars>>

\* aboot.c:364
continue_fail ==
    /\ At("main", "continue_fail")
    /\ Reply(fastboot_fail("Unable to boot default kernel!"))
    /\ Goto("main", "fb_return")
    /\ UNCHANGED <<alive, action_mutex, cmd, device, ptn, cmd_base, fp,
                   do_ext_checks, written, bootvars>>

cmd_continue == continue_call \/ start_default_kernel("main") \/ continue_fail

(***************************************************************************)
(* countdown, run by the main thread inside try_update_sw and by the       *)
(* autoboot thread.                                                        *)
(***************************************************************************)
CdThreads == {"main", "auto"}
CdLabels == {"cd_test", "cd_sleep", "cd_reset", "cd_disarm"}
CdReturn(t) == IF t = "main" THEN "tus_counted" ELSE "auto_counted"

\* iterations after which a countdown that cannot reach zero is left asleep
MaxIters == MaxDelay + 2

\* droidboot.c:257-259
cd_arm(t) ==
    /\ At(t, "cd_arm")
    /\ autoboot_enabled' = 1
    /\ seconds' = [seconds EXCEPT ![t] = g_autoboot_delay_secs]
    /\ iters' = [iters EXCEPT ![t] = 0]
    /\ key_seen' = [key_seen EXCEPT ![t] = FALSE]
    /\ cleared_at' = [cleared_at EXCEPT ![t] = -1]
    /\ Goto(t, "cd_test")
    /\ UNCHANGED <<alive, action_mutex, cmdvars, cfgvars, updvars, cd_ret>>
    /\ progress' = "countdown"

\* the loop condition without the test of the armed flag
cd_test_deaf(t) ==
    /\ At(t, "cd_test")
    /\ Goto(t, IF seconds[t] # 0 THEN "cd_sleep" ELSE "cd_reset")
    /\ UNCHANGED <<alive, action_mutex, cmdvars, bootvars>>

\* droidboot.c:260, the loop condition
cd_test(t) ==
    /\ At(t, "cd_test")
    /\ Goto(t, IF seconds[t] # 0 /\ autoboot_enabled # 0
               THEN "cd_sleep" ELSE "cd_reset")
    /\ UNCHANGED <<alive, action_mutex, cmdvars, bootvars>>

\* droidboot.c:261-262 and the seconds-- of line 260
cd_sleep(t) ==
    /\ At(t, "cd_sleep")
    /\ iters[t] < MaxIters
    /\ seconds' = [seconds EXCEPT ![t] = @ - 1]
    /\ iters' = [iters EXCEPT ![t] = @ + 1]
    /\ Goto(t, "cd_test")
    /\ UNCHANGED <<alive, action_mutex, cmdvars, cfgvars, updvars,
                   autoboot_enabled, cd_ret, key_seen, cleared_at>>
    /\ UNCHANGED progress

\* droidboot.c:264-265
cd_reset(t) ==
    /\ At(t, "cd_reset")
    /\ cd_ret' = [cd_ret EXCEPT ![t] = autoboot_enabled]
    /\ Goto(t, "cd_disarm")
    /\ UNCHANGED <<alive, action_mutex, cmdvars, cfgvars, updvars,
                   autoboot_enabled, seconds, iters, key_seen, cleared_at>>
    /\ progress' = "none"

\* countdown returning with the armed flag left as it is
cd_disarm_keeps(t) ==
    /\ At(t, "cd_disarm")
    /\ Goto(t, CdReturn(t))
    /\ UNCHANGED <<alive, action_mutex, cmdvars, cfgvars, updvars,
                   autoboot_enabled, seconds, cd_ret, iters, key_seen,
                   cleared_at>>
    /\ UNCHANGED progress

\* droidboot.c:266-267
cd_disarm(t) ==
    /\ At(t, "cd_disarm")
    /\ autoboot_enabled' = 0
    /\ Goto(t, CdReturn(t))
    /\ UNCHANGED <<alive, action_mutex, cmdvars, cfgvars, updvars,
                   seconds, cd_ret, iters, key_seen, cleared_at>>
    /\ UNCHANGED progress

\* the caller has taken the result: countdown's frame is gone
CdLeave(t) ==
    /\ seconds' = [seconds EXCEPT ![t] = 0]
    /\ cd_ret' = [cd_ret EXCEPT ![t] = 0]
    /\ iters' = [iters EXCEPT ![t] = 0]
    /\ key_seen' = [key_seen EXCEPT ![t] = FALSE]
    /\ cleared_at' = [cleared_at EXCEPT ![t] = -1]

countdown(t) == cd_arm(t) \/ cd_test(t) \/ cd_sleep(t) \/ cd_reset(t) \/ cd_disarm(t)

(***************************************************************************)
(* The input listener thread: input_callback and disable_autoboot.         *)
(***************************************************************************)
Running(t) == pc[t] \in CdLabels

\* droidboot.c:331-352 and the test of line 248
input_callback ==
    /\ At("input", "ev_wait")
    /\ \E type \in {"EV_KEY", "EV_REL", "unreadable"} :
        IF type = "EV_KEY"
        THEN /\ Goto("input", IF autoboot_enabled # 0
                              THEN "disable_autoboot" ELSE "ev_wait")
             /\ key_seen' = [t \in CdThreads |-> key_seen[t] \/ Running(t)]
        ELSE UNCHANGED <<pc, key_seen>>
    /\ UNCHANGED <<alive, action_mutex, cmdvars, cfgvars, updvars,
                   autoboot_enabled, seconds, cd_ret, iters, cleared_at>>
    /\ UNCHANGED progress

\* droidboot.c:249-250
disable_autoboot ==
    /\ At("input", "disable_autoboot")
    /\ autoboot_enabled' = 0
    /\ key_seen' = [t \in CdThreads |-> key_seen[t] \/ Running(t)]
    /\ cleared_at' = [t \in CdThreads |->
                        IF Running(t) /\ cleared_at[t] = -1 /\ autoboot_enabled # 0
                        THEN iters[t] ELSE cleared_at[t]]
    /\ Goto("input", "ev_wait")
    /\ UNCHANGED <<alive, action_mutex, cmdvars, cfgvars, updvars,
                   seconds, cd_ret, iters>>
    /\ UNCHANGED progress

input_listener_thread == input_callback \/ disable_autoboot

(***************************************************************************)
(* try_update_sw, detect_sw_update, provisioning_checks                    *)
(***************************************************************************)
NoVol == [device |-> "", device2 |-> "", mount_point |-> ""]
SdCard == "/dev/block/mmcblk1p1"
Volumes ==
    {NoVol} \cup
    {[device |-> d, device2 |-> d2, mount_point |-> "/sdcard"] :
        d \in {SdCard, disk_info.plist[3].device},
        d2 \in {"", SdCard, disk_info.plist[3].device}}

AUTO_UPDATE_FNAME == "droidboot.auto-ota.zip"

\* droidboot.c:204-213 and 232: "/mnt" mount_point "/" AUTO_UPDATE_FNAME
\* with the leading "/mnt" nipped off
UpdatePath(v) == Advance("/mnt" \o v.mount_point \o "/" \o AUTO_UPDATE_FNAME, 4)

ULog(e, a, n) == ulog' = Append(ulog, Ev(e, a, n))

\* try_update_sw without the "already been here" test
tus_entry_again ==
    /\ At("main", "tus_entry")
    /\ Goto("main", "tus_detect")
    /\ UNCHANGED <<alive, action_mutex, cmdvars, cfgvars, cdvars, updvars>>
    /\ UNCHANGED progress

\* droidboot.c:270-277
tus_entry ==
    /\ At("main", "tus_entry")
    /\ IF g_update_location # ""
       THEN /\ tus_ret' = 0
            /\ Goto("main", "main_autoboot")
       ELSE /\ Goto("main", "tus_detect")
            /\ UNCHANGED tus_ret
    /\ UNCHANGED <<alive, action_mutex, cmdvars, cfgvars, cdvars,
                   g_update_location, use_countdown, update_location, calls, ulog>>
    /\ UNCHANGED progress

\* droidboot.c:279-281 with detect_sw_update, droidboot.c:197-244
tus_detect ==
    /\ At("main", "tus_detect")
    /\ \E alloc \in BOOLEAN, m1 \in BOOLEAN, m2 \in BOOLEAN, found \in BOOLEAN :
        IF ~alloc
        THEN /\ die("main")
             /\ UNCHANGED <<ulog, update_location, tus_ret>>
        ELSE LET try2 == ~m1 /\ vol.device2 # ""
                 mounted == m1 \/ (try2 /\ m2)
                 mounts == << Ev("mount", vol.device, IF m1 THEN 0 ELSE -1) >>
                           \o (IF try2
                               THEN << Ev("mount", vol.device2, IF m2 THEN 0 ELSE -1) >>
                               ELSE << >>)
                 ret == IF mounted /\ found THEN UpdatePath(vol) ELSE ""
             IN  /\ ulog' = ulog \o mounts
                            \o (IF mounted THEN << Ev("stat", ret, 0) >> ELSE << >>)
                            \o << Ev("umount", "", 0) >>
                 /\ update_location' = ret
                 /\ IF ret = ""
                    THEN tus_ret' = 0 /\ Goto("main", "main_autoboot")
                    ELSE UNCHANGED tus_ret /\ Goto("main", "tus_countdown")
                 /\ UNCHANGED alive
    /\ UNCHANGED <<action_mutex, cmdvars, cfgvars, cdvars, g_update_location,
                   use_countdown, calls>>
    /\ UNCHANGED progress

\* droidboot.c:283-287
tus_countdown ==
    /\ At("main", "tus_countdown")
    /\ Goto("main", IF use_countdown # 0 THEN "cd_arm" ELSE "tus_lock")
    /\ UNCHANGED <<alive, action_mutex, cmdvars, bootvars>>

\* try_update_sw going on whatever countdown returned
tus_counted_regardless ==
    /\ At("main", "tus_counted")
    /\ Goto("main", "tus_lock")
    /\ CdLeave("main")
    /\ UNCHANGED <<alive, action_mutex, cmdvars, cfgvars, autoboot_enabled,
                   g_update_location, use_countdown, update_location, tus_ret,
                   calls, ulog>>
    /\ UNCHANGED progress

\* droidboot.c:288-293
tus_counted ==
    /\ At("main", "tus_counted")
    /\ IF cd_ret["main"] = 0
       THEN /\ update_location' = ""
            /\ tus_ret' = 0
            /\ Goto("main", "main_autoboot")
       ELSE /\ Goto("main", "tus_lock")
            /\ UNCHANGED <<update_location, tus_ret>>
    /\ CdLeave("main")
    /\ UNCHANGED <<alive, action_mutex, cmdvars, cfgvars, autoboot_enabled,
                   g_update_location, use_countdown, calls, ulog>>
    /\ UNCHANGED progress

\* droidboot.c:295-298
tus_lock ==
    /\ At("main", "tus_lock")
    /\ action_mutex = "free"
    /\ action_mutex' = "main"
    /\ tus_ret' = -1
    /\ ULog("lock", "", 0)
    /\ Goto("main", "prov_hook")
    /\ UNCHANGED <<alive, cmdvars, cfgvars, cdvars, g_update_location,
                   use_countdown, update_location, calls>>
    /\ progress' = "indeterminate"

\* droidboot.c:173-178
prov_hook ==
    /\ At("main", "prov_hook")
    /\ IF platform_provision_function
       THEN \E rc \in {0, -1} :
            /\ ULog("platform_provision_function", "", rc)
            /\ Goto("main", IF rc # 0 THEN "tus_provfail" ELSE "prov_cache")
       ELSE /\ Goto("main", "prov_cache")
            /\ UNCHANGED ulog
    /\ UNCHANGED <<alive, action_mutex, cmdvars, cfgvars, cdvars,
                   g_update_location, use_countdown, update_location, tus_ret,
                   calls>>
    /\ UNCHANGED progress

\* provision_partition returning 0 whatever the check or the format did
provision_partition_lenient(name, source_volume, next) ==
    LET p == find_part(disk_info, name) IN
    IF p = NULL
    THEN Goto("main", "tus_provfail") /\ ULog("find_part", name, -1)
    ELSE \E nodeOk \in BOOLEAN, rc \in {0, -1} :
         IF ~nodeOk
         THEN Goto("main", "tus_provfail") /\ ULog("find_part_device", name, -1)
         ELSE LET dev == disk_info.plist[p].device IN
              /\ IF StrEq(source_volume.device, dev)
                 THEN ULog("ext4_filesystem_checks", dev, rc)
                 ELSE ULog("erase_partition", dev, rc)
              /\ Goto("main", next)

\* provision_partition(name, source_volume), droidboot.c:131-167; next is
\* where provisioning_checks goes on when it returned 0
provision_partition(name, source_volume, next) ==
    LET p == find_part(disk_info, name) IN
    IF p = NULL
    THEN Goto("main", "tus_provfail") /\ ULog("find_part", name, -1)
    ELSE \E nodeOk \in BOOLEAN, rc \in {0, -1} :
         IF ~nodeOk
         THEN Goto("main", "tus_provfail") /\ ULog("find_part_device", name, -1)
         ELSE LET dev == disk_info.plist[p].device IN
              /\ IF StrEq(source_volume.device, dev)
                 THEN ULog("ext4_filesystem_checks", dev, rc)
                 ELSE ULog("erase_partition", dev, rc)
              /\ Goto("main", IF rc # 0 THEN "tus_provfail" ELSE next)

\* droidboot.c:180-182
prov_cache ==
    /\ At("main", "prov_cache")
    /\ provision_partition(CACHE_PTN, vol, "prov_data")
    /\ UNCHANGED <<alive, action_mutex, cmdvars, cfgvars, cdvars,
                   g_update_location, use_countdown, update_location, tus_ret,
                   calls>>
    /\ UNCHANGED progress

\* droidboot.c:184-188
prov_data ==
    /\ At("main", "prov_data")
    /\ provision_partition(DATA_PTN, vol, "tus_apply")
    /\ UNCHANGED <<alive, action_mutex, cmdvars, cfgvars, cdvars,
                   g_update_location, use_countdown, update_location, tus_ret,
                   calls>>
    /\ UNCHANGED progress

provisioning_checks == prov_hook \/ prov_cache \/ prov_data

\* try_update_sw leaving by a return of its own when provisioning failed
tus_provfail_leaks ==
    /\ At("main", "tus_provfail")
    /\ update_location' = ""
    /\ Goto("main", "main_autoboot")
    /\ UNCHANGED <<alive, action_mutex, cmdvars, cfgvars, cdvars,
                   g_update_location, use_countdown, tus_ret, calls, ulog>>
    /\ UNCHANGED progress

\* droidboot.c:299-300
tus_provfail ==
    /\ At("main", "tus_provfail")
    /\ update_location' = ""
    /\ Goto("main", "tus_unlock")
    /\ UNCHANGED <<alive, action_mutex, cmdvars, cfgvars, cdvars,
                   g_update_location, use_countdown, tus_ret, calls, ulog>>
    /\ UNCHANGED progress

\* try_update_sw stashing the path before it looks at the pause option
tus_apply_stash_first ==
    /\ At("main", "tus_apply")
    /\ g_update_location' = update_location
    /\ IF g_update_pause = 0
       THEN /\ ULog("apply_sw_update", update_location, 0)
            /\ \E left \in BOOLEAN :
                IF left
                THEN /\ alive' = "recovery"
                     /\ UNCHANGED <<pc, update_location>>
                ELSE /\ update_location' = ""
                     /\ Goto("main", "tus_unlock")
                     /\ UNCHANGED alive
            /\ UNCHANGED tus_ret
       ELSE /\ tus_ret' = 0
            /\ Goto("main", "tus_unlock")
            /\ UNCHANGED <<alive, update_location, ulog>>
    /\ UNCHANGED <<action_mutex, cmdvars, cfgvars, cdvars, use_countdown, calls>>
    /\ UNCHANGED progress

\* droidboot.c:301-311
tus_apply ==
    /\ At("main", "tus_apply")
    /\ IF g_update_pause = 0
       THEN /\ ULog("apply_sw_update", update_location, 0)
            /\ \E left \in BOOLEAN :
                IF left
                THEN /\ alive' = "recovery"
                     /\ UNCHANGED <<pc, update_location>>
                ELSE /\ update_location' = ""
                     /\ Goto("main", "tus_unlock")
                     /\ UNCHANGED alive
            /\ UNCHANGED <<g_update_location, tus_ret>>
       ELSE /\ g_update_location' = update_location
            /\ tus_ret' = 0
            /\ Goto("main", "tus_unlock")
            /\ UNCHANGED <<alive, update_location, ulog>>
    /\ UNCHANGED <<action_mutex, cmdvars, cfgvars, cdvars, use_countdown, calls>>
    /\ UNCHANGED progress

\* droidboot.c:312-314
tus_unlock ==
    /\ At("main", "tus_unlock")
    /\ action_mutex' = "free"
    /\ ULog("unlock", "", 0)
    /\ Goto("main", "main_autoboot")
    /\ UNCHANGED <<alive, cmdvars, cfgvars, cdvars, g_update_location,
                   use_countdown, update_location, tus_ret, calls>>
    /\ progress' = "none"

try_update_sw ==
    \/ tus_entry \/ tus_detect \/ tus_countdown \/ countdown("main")
    \/ tus_counted \/ tus_lock \/ provisioning_checks \/ tus_provfail
    \/ tus_apply \/ tus_unlock

\* the call try_update_sw(vol, uc)
CallTryUpdateSw(uc) ==
    /\ use_countdown' = uc
    /\ update_location' = ""
    /\ tus_ret' = 0
    /\ calls' = calls + 1
    /\ ulog' = << >>
    /\ Goto("main", "tus_entry")

(***************************************************************************)
(* main and the autoboot thread                                            *)
(***************************************************************************)
\* main creating the autoboot thread before it looks for an update
main_update_early ==
    /\ At("main", "main_start")
    /\ IF vol # NoVol
       THEN /\ use_countdown' = 1
            /\ update_location' = ""
            /\ tus_ret' = 0
            /\ calls' = calls + 1
            /\ ulog' = << >>
            /\ pc' = [pc EXCEPT !["main"] = "tus_entry",
                                !["auto"] = IF g_use_autoboot # 0
                                            THEN "auto_start" ELSE @]
       ELSE /\ Goto("main", "main_autoboot")
            /\ UNCHANGED <<use_countdown, update_location, tus_ret, calls, ulog>>
    /\ UNCHANGED <<alive, action_mutex, cmdvars, cfgvars, cdvars,
                   g_update_location>>
    /\ UNCHANGED progress

\* droidboot.c:512-514
main_update ==
    /\ At("main", "main_start")
    /\ IF vol # NoVol
       THEN CallTryUpdateSw(1)
       ELSE /\ Goto("main", "main_autoboot")
            /\ UNCHANGED <<use_countdown, update_location, tus_ret, calls, ulog>>
    /\ UNCHANGED <<alive, action_mutex, cmdvars, cfgvars, cdvars,
                   g_update_location>>
    /\ UNCHANGED progress

\* droidboot.c:516-524; main's locals and the frame of try_update_sw are
\* not used again once main is here
main_autoboot ==
    /\ At("main", "main_autoboot")
    /\ IF g_use_autoboot # 0 /\ g_update_location = ""
       THEN \E created \in BOOLEAN :
            IF created
            THEN /\ pc' = [pc EXCEPT !["main"] = "fb_idle", !["auto"] = "auto_start"]
                 /\ UNCHANGED alive
            ELSE die("main")
       ELSE Goto("main", "fb_idle") /\ UNCHANGED alive
    /\ use_countdown' = 0
    /\ update_location' = ""
    /\ tus_ret' = 0
    /\ ulog' = << >>
    /\ vol' = NoVol
    /\ UNCHANGED <<action_mutex, cmdvars, cdvars, g_update_location, calls,
                   g_use_autoboot, g_autoboot_delay_secs, g_update_pause,
                   g_2ndstageboot_part, platform_provision_function>>
    /\ UNCHANGED progress

\* droidboot.c:318-322
auto_start ==
    /\ At("auto", "auto_start")
    /\ Goto("auto", "cd_arm")
    /\ UNCHANGED <<alive, action_mutex, cmdvars, bootvars>>

\* droidboot.c:322-327
auto_counted ==
    /\ At("auto", "auto_counted")
    /\ Goto("auto", IF cd_ret["auto"] = 0 THEN "done" ELSE "sdk_mount")
    /\ CdLeave("auto")
    /\ UNCHANGED <<alive, action_mutex, cmdvars, cfgvars, updvars,
                   autoboot_enabled>>
    /\ progress' = IF cd_ret["auto"] = 0 THEN progress ELSE "none"

autoboot_thread ==
    \/ auto_start \/ countdown("auto") \/ auto_counted
    \/ start_default_kernel("auto")

(***************************************************************************)
(* Specifications.                                                         *)
(***************************************************************************)
\* values droidboot.delay can take
Delays == -1..MaxDelay

\* values droidboot.bootpart can take
BootParts == {DATA_PTN, "boot2"}

InitThreads(mainLabel) ==
    /\ pc = [t \in Threads |-> CASE t = "main" -> mainLabel
                                 [] t = "auto" -> "none"
                                 [] t = "input" -> "ev_wait"]
    /\ alive = "running"
    /\ action_mutex = "free"
    /\ CmdIdle
    /\ g_update_location = ""
    /\ use_countdown = 0
    /\ update_location = ""
    /\ tus_ret = 0
    /\ calls = 0
    /\ ulog = << >>
    /\ autoboot_enabled = 0
    /\ seconds = [t \in CdThreads |-> 0]
    /\ cd_ret = [t \in CdThreads |-> 0]
    /\ iters = [t \in CdThreads |-> 0]
    /\ key_seen = [t \in CdThreads |-> FALSE]
    /\ cleared_at = [t \in CdThreads |-> -1]
    /\ progress = "none"

\* the process as main finds it at droidboot.c:512: the kernel command line
\* is parsed, the disk layout loaded, the input listener started
Init ==
    /\ InitThreads("main_start")
    /\ g_use_autoboot \in {0, 1}
    /\ g_autoboot_delay_secs \in Delays
    /\ g_update_pause \in {0, 1}
    /\ g_2ndstageboot_part \in BootParts
    /\ platform_provision_function \in BOOLEAN
    /\ vol \in Volumes

\* commands the host sends while the boot threads are still at work
BootCommands ==
    Commands({"disk", "cache", "bogus"}, {" partition"}, {<< >>})

Next ==
    \/ main_update
    \/ try_update_sw
    \/ main_autoboot
    \/ autoboot_thread
    \/ input_listener_thread
    \/ fastboot_dispatch(BootCommands)
    \/ fastboot_return
    \/ cmd_erase
    \/ cmd_flash
    \/ cmd_oem
    \/ cmd_boot
    \/ cmd_reboot
    \/ cmd_continue

Spec == Init /\ [][Next]_vars

\* the fastboot engine alone: main has reached fastboot_init with no update
\* package found and no autoboot thread created
InitCmd ==
    /\ InitThreads("fb_idle")
    /\ g_use_autoboot = 0
    /\ g_autoboot_delay_secs = MaxDelay
    /\ g_update_pause = 0
    /\ g_2ndstageboot_part \in BootParts
    /\ platform_provision_function = FALSE
    /\ vol = NoVol

AllCommands == Commands(PartNames, OemArgs, Payloads)

NextCmd ==
    \/ fastboot_dispatch(AllCommands)
    \/ fastboot_return
    \/ cmd_erase
    \/ cmd_flash
    \/ cmd_oem
    \/ cmd_boot
    \/ cmd_reboot
    \/ cmd_continue

SpecCmd == InitCmd /\ [][NextCmd]_vars

\* try_update_sw called again and again by one thread, with or without
\* countdown, while the input listener runs
recall_try_update_sw ==
    /\ At("main", "main_autoboot")
    /\ calls < MaxCalls
    /\ \E uc \in {0, 1} : CallTryUpdateSw(uc)
    /\ UNCHANGED <<alive, action_mutex, cmdvars, cfgvars, cdvars,
                   g_update_location>>
    /\ UNCHANGED progress

InitUpdate ==
    /\ Init
    /\ vol # NoVol
    /\ g_use_autoboot = 0

NextUpdate ==
    \/ main_update
    \/ try_update_sw
    \/ recall_try_update_sw
    \/ input_listener_thread

SpecUpdate == InitUpdate /\ [][NextUpdate]_vars

(***************************************************************************)
(* Properties.                                                             *)
(***************************************************************************)
\* the handler has returned to the fastboot engine
Returned == pc["main"] = "fb_return"

HasEv(l, e, a) == \E i \in 1..Len(l) : l[i].ev = e /\ l[i].arg = a

RepairTools == {"resize2fs", "e2fsck", "tune2fs"}
IsRepair(e) == e.ev = "exec" /\ e.arg \in RepairTools
RepairRun(l) == SelectSeq(l, IsRepair)

\* the reason of a failure reply speaks of an unknown partition
UnknownPartition(r) ==
    r.ev = "fail" /\ StrNEq(r.arg, "unknown partition", Len("unknown partition"))

\* C1: every command handler that returns to the dispatcher has sent exactly
\* one terminal reply, an okay or a fail; no handler has sent two at any
\* point of its run.
C1_OneReply ==
    /\ Len(Replies(log)) <= 1
    /\ Returned => Len(Replies(log)) = 1

C1_Witness ==
    /\ Returned
    /\ cmd.name = "flash"
    /\ HasEv(log, "exec", "e2fsck")
    /\ Replies(log) = << fastboot_fail("fsck of filesystem failed") >>

\* C2 as stated: a flash or erase of any name the partition directory does
\* not know ends in an "unknown partition" failure and performs no device
\* operation.
C2_Original ==
    (Returned /\ cmd.name \in {"flash", "erase"}
              /\ find_part(disk_info, cmd.arg) = NULL)
        => /\ Len(Replies(log)) = 1
           /\ UnknownPartition(Replies(log)[1])
           /\ IoEvents(log) = << >>
           /\ written = << >>

\* C2 amended: the same for every unknown name that is neither "disk" nor
\* begins with "osip"; those two forms are routed before the lookup.
C2_Amended ==
    (Returned /\ cmd.name \in {"flash", "erase"}
              /\ find_part(disk_info, cmd.arg) = NULL
              /\ (cmd.name = "flash" =>
                    ~StrEq(cmd.arg, "disk") /\ ~StrNEq(cmd.arg, "osip", 4)))
        => /\ Len(Replies(log)) = 1
           /\ UnknownPartition(Replies(log)[1])
           /\ IoEvents(log) = << >>
           /\ written = << >>

C2_Witness ==
    /\ Returned
    /\ cmd.name = "flash"
    /\ cmd.arg = "diskx"
    /\ Len(cmd.data) > 0
    /\ Replies(log) = << fastboot_fail("unknown partition specified") >>

\* the command is a flash of a named partition whose declared type is not
\* the Linux filesystem type
FlashUnsupported ==
    /\ cmd.name = "flash"
    /\ ~StrEq(cmd.arg, "disk")
    /\ ~StrNEq(cmd.arg, "osip", 4)
    /\ find_part(disk_info, cmd.arg) # NULL
    /\ disk_info.plist[find_part(disk_info, cmd.arg)].type # PC_PART_TYPE_LINUX

\* C3 as stated, for the runs that opened the write stream: a flash of a
\* named partition of an unsupported type writes nothing to the device and
\* ends in the failure reply "Unsupported partition type".
C3_Original ==
    (FlashUnsupported /\ HasEv(log, "popen", cmd_base))
        => /\ written = << >>
           /\ Returned =>
                Replies(log) = << fastboot_fail("Unsupported partition type") >>

\* C3 amended: cmd_flash does not look at the declared type before writing.
\* A flash of a named partition of an unsupported type never answers
\* "Unsupported partition type", reads no superblock and runs no repair
\* step; it ends in the success reply exactly when the write stream took the
\* whole payload.
C3_Amended ==
    FlashUnsupported
        => /\ ~HasEv(log, "fail", "Unsupported partition type")
           /\ ~HasEv(log, "superblock", device)
           /\ ~HasEv(log, "lseek", device)
           /\ RepairRun(log) = << >>
           /\ Returned =>
                (Replies(log) = << fastboot_okay("") >>
                    <=> \E i \in 1..Len(log) :
                            log[i].ev = "fwrite" /\ log[i].n = Len(cmd.data))

C3_Witness ==
    /\ Returned
    /\ FlashUnsupported
    /\ Len(cmd.data) = 3
    /\ written = cmd.data
    /\ Replies(log) = << fastboot_okay("") >>

\* position in the log of a write that took fewer bytes than the payload has
ShortWrites == {i \in 1..Len(log) : log[i].ev = "fwrite" /\ log[i].n < Len(cmd.data)}

\* C4: after a short write cmd_flash sends the failure reply "image write
\* failure", never a success reply, and does nothing more than close the
\* stream: no partition-table re-read, no superblock probe, no repair step.
C4_ShortWriteFails ==
    \A i \in ShortWrites :
        /\ \A j \in (i + 1)..Len(log) : log[j].ev \in {"fail", "pclose"}
        /\ Replies(log) = << fastboot_fail("image write failure") >>
        /\ ~do_ext_checks
        /\ pc["main"] \in {"flash_out", "fb_return"}

C4_Witness ==
    /\ Returned
    /\ ShortWrites # {}
    /\ cmd.arg = "cache"
    /\ Len(written) = 2
    /\ Replies(log) = << fastboot_fail("image write failure") >>

\* the payload starts with the gzip magic and has the deflate method in the
\* compression-method byte, the third byte of the header
GzipHeader(data) ==
    /\ Len(data) >= 3
    /\ data[1] = GZIP_ID1
    /\ data[2] = GZIP_ID2
    /\ data[3] = GZIP_DEFLATE

\* C5, for the payloads of four bytes or more: cmd_flash chooses the
\* decompressing pipeline exactly for the payloads that begin 0x1F 0x8B and
\* carry the deflate method in the header's compression-method byte; every
\* other payload is written raw, unchanged.
C5_GzipExactly ==
    (cmd_base # "none" /\ Len(cmd.data) > 3)
        => /\ (cmd_base = "gzip") <=> GzipHeader(cmd.data)
           /\ (~GzipHeader(cmd.data) /\ Returned /\ ShortWrites = {}
                    /\ HasEv(log, "fwrite", cmd_base))
                => written = cmd.data

\* the superblock of the destination was read, at offset 1024
SuperblockAt(i) ==
    /\ i > 1
    /\ log[i].ev = "superblock"
    /\ log[i - 1] = Ev("lseek", device, EXT_SUPERBLOCK_OFFSET)

\* the superblock read carries the ext magic, or lacks it
MagicRead == \E i \in 1..Len(log) :
                SuperblockAt(i) /\ log[i].n = EXT3_SUPER_MAGIC
NoMagicRead == \E i \in 1..Len(log) :
                SuperblockAt(i) /\ log[i].n # EXT3_SUPER_MAGIC
LinuxPartition == ptn # NULL /\ disk_info.plist[ptn].type = PC_PART_TYPE_LINUX

\* C6: cmd_flash enters the repair sequence if and only if the destination
\* is a named partition of the Linux filesystem type and the superblock read
\* from it carries the ext magic: no repair tool runs otherwise, and when
\* both hold resize2fs is run unless its command line cannot be allocated.
\* A partition of that type whose superblock lacks the magic runs no repair
\* tool and the command ends in the success reply.
C6_RepairIff ==
    cmd.name = "flash"
        => /\ do_ext_checks <=> (LinuxPartition /\ MagicRead)
           /\ RepairRun(log) # << >> => (LinuxPartition /\ MagicRead)
           /\ (Returned /\ LinuxPartition /\ MagicRead)
                => \/ HasEv(log, "exec", "resize2fs")
                   \/ Replies(log) = << fastboot_fail("memory allocation error") >>
           /\ (Returned /\ LinuxPartition /\ NoMagicRead)
                => /\ RepairRun(log) = << >>
                   /\ Replies(log) = << fastboot_okay("") >>

C6_Witness ==
    /\ Returned
    /\ cmd.name = "flash"
    /\ cmd.arg = "data"
    /\ NoMagicRead
    /\ RepairRun(log) = << >>
    /\ Replies(log) = << fastboot_okay("") >>

IsPrefix(a, b) == Len(a) <= Len(b) /\ SubSeq(b, 1, Len(a)) = a

ToolNames(l) == [i \in 1..Len(l) |-> l[i].arg]

\* the reply cmd_flash gives when the named tool reports the status n
ToolFailure(tool) ==
    CASE tool = "resize2fs" -> fastboot_fail("could not resize filesystem to fill disk")
      [] tool = "e2fsck"    -> fastboot_fail("fsck of filesystem failed")
      [] tool = "tune2fs"   -> fastboot_fail("tune2fs failed")

ToolOk(e) == IF e.arg = "e2fsck" THEN e.n \in {0, 1} ELSE e.n = 0

\* C7: the repair tools run in the order resize2fs, e2fsck, tune2fs, each at
\* most once; a tool runs only after the one before it succeeded (0 for
\* resize2fs and tune2fs, 0 or 1 for e2fsck), a tool that failed is the last
\* one run and the command ends with that tool's own failure reason, a
\* checker result of 0 or 1 lets the sequence go on to tune2fs, and the
\* success reply comes only behind three successful tools.
C7_RepairOrder ==
    LET run == RepairRun(log) IN
    cmd.name = "flash"
        => /\ IsPrefix(ToolNames(run), << "resize2fs", "e2fsck", "tune2fs" >>)
           /\ \A i \in 1..(Len(run) - 1) : ToolOk(run[i])
           /\ (Returned /\ run # << >> /\ ~ToolOk(run[Len(run)]))
                => /\ Replies(log) = << ToolFailure(run[Len(run)].arg) >>
                   /\ log[Len(log)] = ToolFailure(run[Len(run)].arg)
                   /\ IsRepair(log[Len(log) - 1])
           /\ (Returned /\ run # << >> /\ Len(run) < 3 /\ ToolOk(run[Len(run)]))
                => Replies(log) = << fastboot_fail("memory allocation error") >>
           /\ (do_ext_checks /\ HasEv(log, "okay", ""))
                => /\ Len(run) = 3
                   /\ \A i \in 1..3 : ToolOk(run[i])
                   /\ log[Len(log)] = fastboot_okay("")
                   /\ log[Len(log) - 1] = run[3]

C7_Witness ==
    /\ Returned
    /\ Len(RepairRun(log)) = 3
    /\ RepairRun(log)[2].n = 1
    /\ Replies(log) = << fastboot_okay("") >>

\* countdown has returned to its caller in thread t
Counted(t) == pc[t] = CdReturn(t)

\* C8: a countdown of D >= 0 seconds during which no key event is handled
\* performs exactly D iterations and returns non-zero; one whose armed flag
\* is cleared by a key event during iteration k < D returns 0 after at most
\* k + 1 iterations.
C8_Countdown ==
    \A t \in CdThreads :
        (Counted(t) /\ g_autoboot_delay_secs >= 0)
            => /\ ~key_seen[t]
                    => iters[t] = g_autoboot_delay_secs /\ cd_ret[t] # 0
               /\ (cleared_at[t] # -1 /\ cleared_at[t] < g_autoboot_delay_secs)
                    => cd_ret[t] = 0 /\ iters[t] <= cleared_at[t] + 1

C8_Witness ==
    /\ Counted("auto")
    /\ g_autoboot_delay_secs = MaxDelay
    /\ cleared_at["auto"] = MaxDelay - 1
    /\ iters["auto"] = MaxDelay
    /\ cd_ret["auto"] = 0

\* C9: a call of try_update_sw made while a deferred update path is stashed
\* returns 0 from its first step: no mount, no countdown, no lock, no
\* provisioning or apply step, the stashed path unchanged.
C9_StashedNoop ==
    [][(pc["main"] = "tus_entry" /\ g_update_location # ""
            /\ pc'["main"] # pc["main"])
        => /\ pc'["main"] = "main_autoboot"
           /\ tus_ret' = 0
           /\ ulog' = << >>
           /\ UNCHANGED <<action_mutex, g_update_location, autoboot_enabled,
                          alive, cdvars>>]_vars

C9_Witness ==
    /\ pc["main"] = "main_autoboot"
    /\ calls = MaxCalls
    /\ g_update_location # ""
    /\ ulog = << >>
    /\ tus_ret = 0

\* C10: no command error ends the process: whatever fails inside cmd_erase,
\* cmd_flash or cmd_oem, the process is still running.
C10_NoFatalCommand ==
    cmd.name \in {"erase", "flash", "oem"} => alive = "running"

\* the continue handler has run to its end: it came back to the fastboot
\* engine, or the default kernel it launched has taken the machine over
ContinueDone ==
    /\ cmd.name = "continue"
    /\ \/ Returned
       \/ pc["main"] = "sdk_kexec" /\ alive = "kexec"

\* C11: a continue command handled while a deferred update path is stashed
\* in g_update_location applies that update: by the time the handler is
\* done, the update applier has been run on the stashed path.
C11_ContinueApplies ==
    (ContinueDone /\ g_update_location # "")
        => HasEv(log, "apply_sw_update", g_update_location)

\* what cmd_reboot does, in the order it does it
RebootTrace ==
    << fastboot_okay(""), Ev("sync", "", 0), Ev("reboot", "android", 0) >>

\* C12: the reboot handler sends the success reply first, synchronizes the
\* filesystems second and issues the restart third; a restart call that
\* returns is followed by no further reply.
C12_RebootOrder ==
    cmd.name = "reboot"
        => /\ IsPrefix(log, RebootTrace)
           /\ (At("main", "reboot_sync") => log = SubSeq(RebootTrace, 1, 1))
           /\ (At("main", "reboot_restart") => log = SubSeq(RebootTrace, 1, 2))
           /\ ((Returned \/ alive = "rebooted") => log = RebootTrace)

C12_Witness ==
    /\ cmd.name = "reboot"
    /\ Returned
    /\ log = RebootTrace

\* the trimmed subcommand is one cmd_oem is said to know: "partition", or
\* "system" alone or followed by a space and its command line
RecognisedOem(command) ==
    \/ StrEq(command, CMD_PARTITION)
    \/ /\ StrNEq(command, CMD_SYSTEM, Len(CMD_SYSTEM))
       /\ Len(command) >= Len(CMD_SYSTEM)
       /\ \/ Len(command) = Len(CMD_SYSTEM)
          \/ SubSeq(command, Len(CMD_SYSTEM) + 1, Len(CMD_SYSTEM) + 1) = " "

\* C13: an oem command whose trimmed subcommand is neither "system" with its
\* command line nor "partition" is answered "unknown OEM command" and runs
\* no external command and no disk-layout apply, also when the subcommand
\* only begins with one of the two keywords.
C13_UnknownOem ==
    (Returned /\ cmd.name = "oem" /\ ~RecognisedOem(SkipSpaces(cmd.arg)))
        => /\ Replies(log) = << fastboot_fail("unknown OEM command") >>
           /\ IoEvents(log) = << >>

\* where the main thread is between pthread_mutex_lock and
\* pthread_mutex_unlock of try_update_sw
ProvLabels ==
    {"prov_hook", "prov_cache", "prov_data", "tus_provfail", "tus_apply",
     "tus_unlock"}

\* the provisioning steps and the update apply, as ulog records them
ProvEvents ==
    {"platform_provision_function", "find_part", "find_part_device",
     "ext4_filesystem_checks", "erase_partition"}
StorageEvents == ProvEvents \cup {"apply_sw_update"}

EvCount(l, e) == Len(SelectSeq(l, LAMBDA x : x.ev = e))

\* C14: in try_update_sw the provisioning steps and the update apply run
\* with action_mutex held by the calling thread: each of them comes after a
\* lock with no unlock in between, the mutex is the caller's from the first
\* provisioning step to the unlock, and it is free again, every lock matched
\* by an unlock, when try_update_sw has returned.
C14_UnderLock ==
    /\ pc["main"] \in ProvLabels => action_mutex = "main"
    /\ \A i \in 1..Len(ulog) :
        ulog[i].ev \in StorageEvents
            => \E j \in 1..(i - 1) :
                /\ ulog[j].ev = "lock"
                /\ \A k \in j..i : ulog[k].ev # "unlock"
    /\ pc["main"] = "main_autoboot"
        => /\ action_mutex = "free"
           /\ EvCount(ulog, "lock") = EvCount(ulog, "unlock")

C14_Witness ==
    /\ pc["main"] = "main_autoboot"
    /\ action_mutex = "free"
    /\ \E i, j, k \in 1..Len(ulog) :
        /\ i < j /\ j < k
        /\ ulog[i].ev = "lock"
        /\ ulog[j] = Ev("erase_partition", disk_info.plist[2].device, -1)
        /\ ulog[k].ev = "unlock"

\* a flash or erase handler has been entered and has not yet returned to the
\* fastboot engine
FlashEraseInProgress ==
    /\ alive = "running"
    /\ cmd.name \in {"flash", "erase"}
    /\ pc["main"] \notin {"fb_idle", "fb_return"}

\* the autoboot thread is inside start_default_kernel with the second-stage
\* partition mounted, loading the kernel from it
AutobootOnStorage == pc["auto"] = "sdk_kexec"

\* C15: the autoboot thread never has the second-stage partition mounted
\* for the launch of the default kernel while a flash or erase handler is
\* in progress.
C15_AutobootSerialized == ~(AutobootOnStorage /\ FlashEraseInProgress)

\* where the main thread is while try_update_sw has its countdown under way:
\* about to call it, inside it, or taking its result
TusCountdown == {"tus_countdown", "cd_arm", "tus_counted"} \cup CdLabels

\* C16: try_update_sw does not hold action_mutex while its countdown runs
\* and has taken no lock in this call by then; it goes on to take the lock
\* only without countdown or from a countdown that returned completed; and
\* from a countdown that returned 0 it returns 0 at once, with no lock, no
\* provisioning step, no apply and nothing stashed.
C16_NoLockInCountdown ==
    /\ [](pc["main"] \in TusCountdown
            => action_mutex # "main" /\ EvCount(ulog, "lock") = 0)
    /\ [][(pc'["main"] = "tus_lock" /\ pc["main"] # "tus_lock")
            => \/ pc["main"] = "tus_countdown" /\ use_countdown = 0
               \/ pc["main"] = "tus_counted" /\ cd_ret["main"] # 0]_vars
    /\ [][(pc["main"] = "tus_counted" /\ cd_ret["main"] = 0
                /\ pc'["main"] # pc["main"])
            => /\ pc'["main"] = "main_autoboot"
               /\ tus_ret' = 0
               /\ ulog' = ulog
               /\ \A i \in 1..Len(ulog) :
                    ulog[i].ev \notin StorageEvents \cup {"lock"}
               /\ UNCHANGED <<action_mutex, g_update_location>>]_vars

\* try_update_sw has returned 0 from a cancelled countdown: a package was
\* found, the call was made with countdown, and no lock was taken
C16_Witness ==
    /\ pc["main"] = "main_autoboot"
    /\ use_countdown # 0
    /\ tus_ret = 0
    /\ HasEv(ulog, "stat", UpdatePath(vol))
    /\ EvCount(ulog, "lock") = 0
    /\ g_update_location = ""
    /\ action_mutex = "free"

\* the device node the volume searched by detect_sw_update was mounted
\* from, "" when no mount of this call succeeded
PackageDevice(l) ==
    LET ok == {i \in 1..Len(l) : l[i].ev = "mount" /\ l[i].n = 0}
    IN  IF ok = {} THEN "" ELSE l[CHOOSE i \in ok : TRUE].arg

\* C17: provisioning never erases the partition the update package was
\* found on, whether the volume was mounted from its first or from its
\* second device path: no erase_partition is run on the device node the
\* package was mounted from.
C17_PackageKept ==
    \A i \in 1..Len(ulog) :
        ulog[i].ev = "erase_partition" => ulog[i].arg # PackageDevice(ulog)

\* positions in l of the provisioning steps that failed
FailedSteps(l) == {i \in 1..Len(l) : l[i].ev \in ProvEvents /\ l[i].n # 0}

\* C18: a provisioning step that fails is the last storage operation of the
\* call: after a failed hook no partition is touched, after a failed cache
\* step the data step is not run, and in either case and after a failed
\* data step nothing is applied or stashed and try_update_sw returns -1.
C18_FailureAborts ==
    /\ \A i \in FailedSteps(ulog) :
        \A j \in (i + 1)..Len(ulog) : ulog[j].ev = "unlock"
    /\ FailedSteps(ulog) # {}
        => /\ g_update_location = ""
           /\ EvCount(ulog, "apply_sw_update") = 0
           /\ pc["main"] = "main_autoboot" => tus_ret = -1

\* the hook passed, the format of the cache partition failed, and
\* try_update_sw has returned
C18_Witness ==
    /\ pc["main"] = "main_autoboot"
    /\ tus_ret = -1
    /\ Len(ulog) >= 3
    /\ SubSeq(ulog, Len(ulog) - 2, Len(ulog)) =
        << Ev("platform_provision_function", "", 0),
           Ev("erase_partition", disk_info.plist[2].device, -1),
           Ev("unlock", "", 0) >>

\* both partitions were checked or formatted with success in this call
Provisioned(l) ==
    /\ FailedSteps(l) = {}
    /\ EvCount(l, "ext4_filesystem_checks") + EvCount(l, "erase_partition") = 2

\* C19: g_update_location changes only from unset to set, only at the stash
\* of try_update_sw, reached with the pause option on and provisioning done
\* with success under the lock; no step of any thread clears or replaces a
\* path once it is set.
C19_StashOnce ==
    [][g_update_location' # g_update_location
        => /\ g_update_location = ""
           /\ g_update_location' # ""
           /\ g_update_location' = update_location
           /\ pc["main"] = "tus_apply"
           /\ g_update_pause # 0
           /\ action_mutex = "main"
           /\ Provisioned(ulog)]_vars

\* a path was stashed at boot and a later command has run to its end with
\* the path still there
C19_Witness ==
    /\ g_update_location = "/sdcard/" \o AUTO_UPDATE_FNAME
    /\ g_update_pause # 0
    /\ Returned
    /\ cmd.name = "continue"

\* C20: when countdown has returned to its caller, completed or cancelled,
\* autoboot_enabled is 0 and the progress indicator is reset; and
\* autoboot_enabled is non-zero only while some thread is inside countdown.
C20_FlagOnlyInCountdown ==
    /\ \A t \in CdThreads :
        Counted(t) => autoboot_enabled = 0 /\ progress = "none"
    /\ autoboot_enabled # 0 => \E t \in CdThreads : Running(t)

\* the countdown of the autoboot thread has returned 0 after a key event
\* cleared the flag while it slept
C20_Witness ==
    /\ Counted("auto")
    /\ cd_ret["auto"] = 0
    /\ cleared_at["auto"] # -1
    /\ iters["auto"] > 0
    /\ autoboot_enabled = 0
    /\ progress = "none"

\* thread t is inside countdown, from its first statement to its return
InCountdown(t) == pc[t] \in CdLabels \cup {"cd_arm"}

\* where the main thread is from the call of try_update_sw to its return
TusLabels ==
    {"tus_entry", "tus_detect"} \cup TusCountdown \cup {"tus_lock"}
    \cup ProvLabels

\* C21: the countdown of try_update_sw and the countdown of the autoboot
\* thread are never in progress together: the autoboot thread does not
\* exist while main is inside try_update_sw, it is created once, by main
\* after try_update_sw, with autoboot enabled and no update path stashed,
\* and it is never created again.
C21_OneCountdown ==
    /\ [](~(InCountdown("main") /\ InCountdown("auto")))
    /\ [](pc["main"] \in TusLabels \cup {"main_start"} => pc["auto"] = "none")
    /\ [][pc'["auto"] # pc["auto"]
            => /\ pc'["auto"] # "none"
               /\ pc'["auto"] = "auto_start"
                    => /\ pc["auto"] = "none"
                       /\ pc["main"] = "main_autoboot"
                       /\ g_use_autoboot # 0
                       /\ g_update_location = ""]_vars

\* the autoboot thread sleeps in its countdown after the one call of
\* try_update_sw has returned with the pause option on and nothing stashed
C21_Witness ==
    /\ pc["auto"] = "cd_sleep"
    /\ autoboot_enabled # 0
    /\ calls = 1
    /\ pc["main"] = "fb_idle"
    /\ g_update_pause # 0
    /\ g_update_location = ""

\* the indices of data_bytes, counted from 0, that the gzip test of
\* aboot.c:172-173 reads: the && chain stops at the first operand that fails
GzipReads(data) ==
    IF ~(Len(data) > 2) THEN {}
    ELSE IF data[1] # GZIP_ID1 THEN {0}
    ELSE IF data[2] # GZIP_ID2 THEN {0, 1}
    ELSE {0, 1, 3}

\* C22: the gzip test of cmd_flash reads no byte of the payload at an index
\* at or beyond the payload length: once cmd_flash has chosen its pipeline,
\* every index the test read is less than sz.
C22_GzipInBounds ==
    (cmd.name = "flash" /\ cmd_base # "none")
        => \A i \in GzipReads(cmd.data) : i < Len(cmd.data)

\* C23: a countdown during which no key event is handled performs at most
\* max(delay, 0) iterations of its loop, whatever integer droidboot.delay
\* gave, and with a delay of zero it returns completed without sleeping.
C23_CountdownBounded ==
    \A t \in CdThreads :
        ((Running(t) \/ Counted(t)) /\ ~key_seen[t])
            => /\ iters[t] <= (IF g_autoboot_delay_secs > 0
                               THEN g_autoboot_delay_secs ELSE 0)
               /\ (Counted(t) /\ g_autoboot_delay_secs = 0)
                    => iters[t] = 0 /\ cd_ret[t] # 0
====
